---- MODULE Spec2Model ----
(***************************************************************************)
(* Block-wise ("online") softmax of examples/online_softmax.py and the     *)
(* golden-data generator examples/unittests/make_data_onlinesoftmaxOp.py;  *)
(* the check_data scripts of examples/unittests; tools/ctest-junit-parse.  *)
(*                                                                         *)
(* Numbers.  A floating-point value is a pair <<n, d>>: d > 0 is the       *)
(* rational n/d in lowest terms, <<-1,0>> is -inf, <<1,0>> is +inf and     *)
(* <<0,0>> is NaN.  Scores are integers and exp is taken to base 2, which  *)
(* keeps every law the recurrence uses (exp(a+b) = exp(a)*exp(b),          *)
(* exp(0) = 1, monotone, positive) and keeps all values rational.          *)
(* Rounding of finite values is not modelled: arithmetic on finite values  *)
(* is exact.  Underflow of exp to 0 is modelled where the code relies on   *)
(* it (the -inf and -65504 initial running maxima).                        *)
(*                                                                         *)
(* Indices are 0-based as in the source.  A matrix is a function           *)
(* [0..rows-1 -> [0..cols-1 -> value]].                                    *)
(***************************************************************************)
EXTENDS Integers, Sequences, FiniteSets, TLC

\* ------------------------------------------------------------- bounds
\* Largest number of rows / columns of a score matrix.
MaxN == 4
\* Entries of the key vector are drawn from MaxVal + 1 consecutive integers.
MaxVal == 2

\* Requested tile sizes range over 1..MaxB (one more than MaxN, so that a
\* request larger than the matrix occurs for every matrix).
MaxB == MaxN + 1

\* ------------------------------------------------------------- numbers
RECURSIVE GCD(_, _)
GCD(a, b) == IF b = 0 THEN a ELSE GCD(b, a % b)

Abs(n) == IF n < 0 THEN -n ELSE n

Sign(n) == IF n < 0 THEN -1 ELSE IF n > 0 THEN 1 ELSE 0

\* The value n/d (d > 0) in lowest terms.
Rat(n, d) == LET g == GCD(Abs(n), d) IN <<n \div g, d \div g>>

Int2F(n) == <<n, 1>>
Zero == <<0, 1>>
One == <<1, 1>>
NegInf == <<-1, 0>>
PosInf == <<1, 0>>
NaN == <<0, 0>>

IsFinite(x) == x[2] > 0
IsNaN(x) == x = NaN

\* x < y on non-NaN values.
FLess(x, y) ==
    IF IsFinite(x) /\ IsFinite(y) THEN x[1] * y[2] < y[1] * x[2]
    ELSE IF IsFinite(x) THEN y = PosInf
    ELSE IF IsFinite(y) THEN x = NegInf
    ELSE x = NegInf /\ y = PosInf

FLeq(x, y) == x = y \/ FLess(x, y)

\* np.maximum: NaN propagates.
FMax(x, y) ==
    IF IsNaN(x) \/ IsNaN(y) THEN NaN
    ELSE IF FLess(x, y) THEN y ELSE x

FNeg(x) == <<-x[1], x[2]>>

FAdd(x, y) ==
    IF IsFinite(x) /\ IsFinite(y) THEN Rat(x[1] * y[2] + y[1] * x[2], x[2] * y[2])
    ELSE IF IsNaN(x) \/ IsNaN(y) THEN NaN
    ELSE IF IsFinite(x) THEN y
    ELSE IF IsFinite(y) THEN x
    ELSE IF x = y THEN x ELSE NaN

FSub(x, y) == FAdd(x, FNeg(y))

FMul(x, y) ==
    IF IsFinite(x) /\ IsFinite(y) THEN Rat(x[1] * y[1], x[2] * y[2])
    ELSE IF IsNaN(x) \/ IsNaN(y) THEN NaN
    ELSE IF x[1] = 0 \/ y[1] = 0 THEN NaN
    ELSE <<Sign(x[1]) * Sign(y[1]), 0>>

\* numpy division: x/0 is +-inf, 0/0 is NaN (a warning, not an exception).
FDiv(x, y) ==
    IF IsNaN(x) \/ IsNaN(y) THEN NaN
    ELSE IF IsFinite(x) /\ IsFinite(y) THEN
        IF y[1] = 0 THEN <<Sign(x[1]), 0>>
        ELSE Rat(Sign(y[1]) * x[1] * y[2], Abs(y[1]) * x[2])
    ELSE IF IsFinite(y) THEN (IF y[1] < 0 THEN FNeg(x) ELSE x)
    ELSE IF IsFinite(x) THEN Zero
    ELSE NaN

RECURSIVE Pow2(_)
Pow2(k) == IF k = 0 THEN 1 ELSE 2 * Pow2(k - 1)

\* np.exp on -inf, +inf, NaN and on integer-valued finite arguments.
FExp(x) ==
    IF IsNaN(x) THEN NaN
    ELSE IF x = NegInf THEN Zero
    ELSE IF x = PosInf THEN PosInf
    ELSE IF x[1] >= 0 THEN <<Pow2(x[1]), 1>>
    ELSE <<1, Pow2(-x[1])>>

\* Sum of f[k] over k in lo..hi (np.sum along an axis).
RECURSIVE FSum(_, _, _)
FSum(f, lo, hi) == IF hi < lo THEN Zero ELSE FAdd(FSum(f, lo, hi - 1), f[hi])

\* Maximum of f[k] over k in lo..hi, lo <= hi (np.max along an axis).
RECURSIVE FMaxOver(_, _, _)
FMaxOver(f, lo, hi) == IF hi = lo THEN f[lo] ELSE FMax(FMaxOver(f, lo, hi - 1), f[hi])

\* ------------------------------------------------------------- state
VARIABLES
    prog,     \* "online": onlinesoftmax; "golden": gen_golden_data;
              \* "simple": simplesoftmax; or the name of a script
    S_in,     \* the score matrix (S_in of onlinesoftmax, S0 of gen_golden_data)
    BrArg,    \* the tile height the caller asked for
    BcArg,    \* the tile width the caller asked for
    Br, Bc,   \* tile height and width in use (n2, n3 of gen_golden_data)
    Tr, Tc,   \* number of row and column tiles (n0, n1 of gen_golden_data)
    m, l, O,  \* running max, running sum, output (m0, l0, S1 of gen_golden_data)
    i, j,     \* loop counters (i0, i1 of gen_golden_data)
    pc,       \* "start", "rowinit", "loop", "done", "error"; in a script the
              \* place it has reached, "exited" at its end
    cnt,      \* cnt[t]: number of block updates applied to row tile t so far
    fin,      \* fin[t]: number of times row tile t was divided by its l
    env,      \* what a script finds outside itself: command line and files
    loc       \* the local variables and the exit status of a script

vars == <<prog, S_in, BrArg, BcArg, Br, Bc, Tr, Tc, m, l, O, i, j, pc, cnt, fin, env, loc>>

Rows(A) == Cardinality(DOMAIN A)
Cols(A) == Cardinality(DOMAIN A[0])

Min(a, b) == IF a < b THEN a ELSE b

\* np.zeros((rows, cols)) and np.zeros(n)
ZeroMatrix(rows, cols) == [r \in 0..rows - 1 |-> [c \in 0..cols - 1 |-> Zero]]
ZeroVector(n) == [r \in 0..n - 1 |-> Zero]

\* The score matrices tried: row r is the key vector K rotated left by r
\* places, doubled in the odd rows, so that the rows of one tile reach their
\* maxima in different column tiles and have different maxima and sums.
Scores(K, N, M) ==
    [r \in 0..N - 1 |-> [c \in 0..M - 1 |-> Int2F((1 + (r % 2)) * K[(c + r) % M])]]

\* Entries of the key vector.  gen_golden_data builds its scores from
\* randint(1, 4), which is positive; the driver of onlinesoftmax draws
\* non-negative values.
KVals(p) == IF p = "golden" THEN 1..(MaxVal + 1) ELSE 0..MaxVal

\* ------------------------------------------------------------- simplesoftmax
\* The oracle: full-row softmax of a square matrix.  The tiled row maxima
\* np.tile(rowmaxS, (rows, 1)).T have entry [r][c] = rowmaxS[r].
simplesoftmax(S) ==
    LET n == Rows(S)
        rowmaxS == [r \in 0..n - 1 |-> FMaxOver(S[r], 0, Cols(S) - 1)]
        tiledmax == [r \in 0..n - 1 |-> [c \in 0..n - 1 |-> rowmaxS[r]]]
        E == [r \in 0..n - 1 |-> [c \in 0..Cols(S) - 1 |->
                 FExp(FSub(S[r][c], tiledmax[r][c]))]]
        rowsumS == [r \in 0..n - 1 |-> FSum(E[r], 0, Cols(S) - 1)]
        tiledsum == [r \in 0..n - 1 |-> [c \in 0..n - 1 |-> rowsumS[r]]]
    IN  [r \in 0..n - 1 |-> [c \in 0..Cols(S) - 1 |->
            FDiv(E[r][c], tiledsum[r][c])]]

\* ------------------------------------------------------------- onlinesoftmax
\* Lines 26-31: N//B, plus one if the product does not give N back.  Python's
\* // rounds towards minus infinity, as \div does; B = 0 raises
\* ZeroDivisionError and is excluded by the caller.
NumTiles(n, b) == IF (n \div b) * b # n THEN (n \div b) + 1 ELSE n \div b

\* The product of the entries of dims that are not negative.
RECURSIVE KnownProduct(_)
KnownProduct(dims) ==
    IF dims = <<>> THEN 1
    ELSE (IF Head(dims) < 0 THEN 1 ELSE Head(dims)) * KnownProduct(Tail(dims))

\* np.reshape of an array of `size` elements to the shape dims succeeds if the
\* sizes agree.  A negative entry stands for "the dimension that makes the
\* sizes agree": numpy accepts one such entry, and only if the product of the
\* others is positive and divides size.  Otherwise it raises ValueError.
ReshapeDimsOK(size, dims) ==
    LET unknown == {k \in DOMAIN dims : dims[k] < 0}
        known == KnownProduct(dims)
    IN  IF unknown = {} THEN known = size
        ELSE /\ Cardinality(unknown) = 1
             /\ known > 0
             /\ size % known = 0

\* np.reshape(A, (tr, br, tc, bc)) of an array of `size` elements.
ReshapeOK(size, tr, br, tc, bc) == ReshapeDimsOK(size, <<tr, br, tc, bc>>)

\* Element [t, r, u, c] of np.reshape(A, (tr, br, tc, bc)) for a row-major
\* matrix A: flat index ((t*br + r)*tc + u)*bc + c.
TensorRow(A, t, r, u, c, br, tc, bc) == ((((t * br + r) * tc + u) * bc + c)) \div Cols(A)
TensorCol(A, t, r, u, c, br, tc, bc) == ((((t * br + r) * tc + u) * bc + c)) % Cols(A)
TensorAt(A, t, r, u, c, br, tc, bc) ==
    A[TensorRow(A, t, r, u, c, br, tc, bc)][TensorCol(A, t, r, u, c, br, tc, bc)]

\* Row index of mtensor[t, r] = np.reshape(m, (tr, br))[t, r].
VecIndex(t, r, br) == t * br + r

\* Si = QKtensor[t, :, u, :]
Block(S, t, u, br, tc, bc) ==
    [r \in 0..br - 1 |-> [c \in 0..bc - 1 |-> TensorAt(S, t, r, u, c, br, tc, bc)]]

\* Mutant of NewMax: the maximum of the block alone replaces the running max.
NewMax_BlockOnly(mold, Si, bc) ==
    [r \in DOMAIN Si |-> FMaxOver(Si[r], 0, bc - 1)]

\* Mutant of NewMax: np.max without axis, one maximum for the whole block.
NewMax_WholeBlock(mold, Si, bc) ==
    LET rowmax == [r \in DOMAIN Si |-> FMaxOver(Si[r], 0, bc - 1)]
        blockmax == FMaxOver(rowmax, 0, Cardinality(DOMAIN Si) - 1)
    IN  [r \in DOMAIN Si |-> FMax(mold[r], blockmax)]

\* np.maximum(mtensor[t, :], np.max(Si, axis=-1))
NewMax(mold, Si, bc) ==
    [r \in DOMAIN Si |-> FMax(mold[r], FMaxOver(Si[r], 0, bc - 1))]

\* np.exp(Si - np.expand_dims(mnew, axis=-1))
Probs(Si, mnew) ==
    [r \in DOMAIN Si |-> [c \in DOMAIN Si[r] |-> FExp(FSub(Si[r][c], mnew[r]))]]

\* Mutant of Correction: the stored sums are not rescaled.
Correction_None(mold, mnew) == [r \in DOMAIN mold |-> One]

\* expmidiff = np.exp(mi_old - mnew)
Correction(mold, mnew) == [r \in DOMAIN mold |-> FExp(FSub(mold[r], mnew[r]))]

\* Mutant of UpdateBlock: the block is exponentiated against the old running max.
UpdateBlock_OldMax(st, S, t, u, br, tc, bc) ==
    LET Si == Block(S, t, u, br, tc, bc)
        mi_old == [r \in 0..br - 1 |-> st.m[VecIndex(t, r, br)]]
        mnew == NewMax(mi_old, Si, bc)
        P == Probs(Si, mi_old)
        expmidiff == Correction(mi_old, mnew)
        InTile(x) == x \in VecIndex(t, 0, br)..VecIndex(t, br - 1, br)
        Loc(x) == x - VecIndex(t, 0, br)
    IN  [m |-> [x \in DOMAIN st.m |-> IF InTile(x) THEN mnew[Loc(x)] ELSE st.m[x]],
         l |-> [x \in DOMAIN st.l |->
                  IF InTile(x)
                  THEN FAdd(FMul(st.l[x], expmidiff[Loc(x)]), FSum(P[Loc(x)], 0, bc - 1))
                  ELSE st.l[x]],
         O |-> [x \in DOMAIN st.O |-> [y \in DOMAIN st.O[x] |->
                  IF ~InTile(x) THEN st.O[x][y]
                  ELSE IF y \in (u * bc)..(u * bc + bc - 1)
                       THEN P[Loc(x)][y - u * bc]
                       ELSE FMul(st.O[x][y], expmidiff[Loc(x)])]]]

\* Mutant of UpdateBlock: the rescaling Otensor[:, :, :, :] *= ... reaches the
\* same local row of every row tile instead of row tile t only.
UpdateBlock_AllTiles(st, S, t, u, br, tc, bc) ==
    LET Si == Block(S, t, u, br, tc, bc)
        mi_old == [r \in 0..br - 1 |-> st.m[VecIndex(t, r, br)]]
        mnew == NewMax(mi_old, Si, bc)
        P == Probs(Si, mnew)
        expmidiff == Correction(mi_old, mnew)
        InTile(x) == x \in VecIndex(t, 0, br)..VecIndex(t, br - 1, br)
        Loc(x) == x - VecIndex(t, 0, br)
    IN  [m |-> [x \in DOMAIN st.m |-> IF InTile(x) THEN mnew[Loc(x)] ELSE st.m[x]],
         l |-> [x \in DOMAIN st.l |->
                  IF InTile(x)
                  THEN FAdd(FMul(st.l[x], expmidiff[Loc(x)]), FSum(P[Loc(x)], 0, bc - 1))
                  ELSE st.l[x]],
         O |-> [x \in DOMAIN st.O |-> [y \in DOMAIN st.O[x] |->
                  IF InTile(x) /\ y \in (u * bc)..(u * bc + bc - 1)
                  THEN P[Loc(x)][y - u * bc]
                  ELSE FMul(st.O[x][y], expmidiff[x % br])]]]

\* Mutant of UpdateBlock: line 70 is left out, the stored blocks are not
\* rescaled when the running max rises.
UpdateBlock_NoRescale(st, S, t, u, br, tc, bc) ==
    LET Si == Block(S, t, u, br, tc, bc)
        mi_old == [r \in 0..br - 1 |-> st.m[VecIndex(t, r, br)]]
        mnew == NewMax(mi_old, Si, bc)
        P == Probs(Si, mnew)
        expmidiff == Correction(mi_old, mnew)
        InTile(x) == x \in VecIndex(t, 0, br)..VecIndex(t, br - 1, br)
        Loc(x) == x - VecIndex(t, 0, br)
    IN  [m |-> [x \in DOMAIN st.m |-> IF InTile(x) THEN mnew[Loc(x)] ELSE st.m[x]],
         l |-> [x \in DOMAIN st.l |->
                  IF InTile(x)
                  THEN FAdd(FMul(st.l[x], expmidiff[Loc(x)]), FSum(P[Loc(x)], 0, bc - 1))
                  ELSE st.l[x]],
         O |-> [x \in DOMAIN st.O |-> [y \in DOMAIN st.O[x] |->
                  IF InTile(x) /\ y \in (u * bc)..(u * bc + bc - 1)
                  THEN P[Loc(x)][y - u * bc]
                  ELSE st.O[x][y]]]]

\* Mutant of UpdateBlock: lines 66 and 68 are swapped, the block's sum is
\* added before the running sum is rescaled.
UpdateBlock_AddThenScale(st, S, t, u, br, tc, bc) ==
    LET Si == Block(S, t, u, br, tc, bc)
        mi_old == [r \in 0..br - 1 |-> st.m[VecIndex(t, r, br)]]
        mnew == NewMax(mi_old, Si, bc)
        P == Probs(Si, mnew)
        expmidiff == Correction(mi_old, mnew)
        InTile(x) == x \in VecIndex(t, 0, br)..VecIndex(t, br - 1, br)
        Loc(x) == x - VecIndex(t, 0, br)
    IN  [m |-> [x \in DOMAIN st.m |-> IF InTile(x) THEN mnew[Loc(x)] ELSE st.m[x]],
         l |-> [x \in DOMAIN st.l |->
                  IF InTile(x)
                  THEN FMul(FAdd(st.l[x], FSum(P[Loc(x)], 0, bc - 1)), expmidiff[Loc(x)])
                  ELSE st.l[x]],
         O |-> [x \in DOMAIN st.O |-> [y \in DOMAIN st.O[x] |->
                  IF ~InTile(x) THEN st.O[x][y]
                  ELSE IF y \in (u * bc)..(u * bc + bc - 1)
                       THEN P[Loc(x)][y - u * bc]
                       ELSE FMul(st.O[x][y], expmidiff[Loc(x)])]]]

\* One pass of the inner loop body for row tile t and column tile u, on the
\* state st = [m, l, O] (the three arrays the tensors are views of).
UpdateBlock(st, S, t, u, br, tc, bc) ==
    LET Si == Block(S, t, u, br, tc, bc)
        mi_old == [r \in 0..br - 1 |-> st.m[VecIndex(t, r, br)]]
        mnew == NewMax(mi_old, Si, bc)
        P == Probs(Si, mnew)
        expmidiff == Correction(mi_old, mnew)
        InTile(x) == x \in VecIndex(t, 0, br)..VecIndex(t, br - 1, br)
        Loc(x) == x - VecIndex(t, 0, br)
    IN  [m |-> [x \in DOMAIN st.m |-> IF InTile(x) THEN mnew[Loc(x)] ELSE st.m[x]],
         l |-> [x \in DOMAIN st.l |->
                  IF InTile(x)
                  THEN FAdd(FMul(st.l[x], expmidiff[Loc(x)]), FSum(P[Loc(x)], 0, bc - 1))
                  ELSE st.l[x]],
         O |-> [x \in DOMAIN st.O |-> [y \in DOMAIN st.O[x] |->
                  IF ~InTile(x) THEN st.O[x][y]
                  ELSE IF y \in (u * bc)..(u * bc + bc - 1)
                       THEN P[Loc(x)][y - u * bc]
                       ELSE FMul(st.O[x][y], expmidiff[Loc(x)])]]]

\* Mutant of InputAfterBlock: the block is exponentiated in place
\* (Si -= ...; np.exp(Si, out=Si)), which writes through the view into S_in.
InputAfterBlock_InPlace(S, st, t, u, br, tc, bc) ==
    LET Si == Block(S, t, u, br, tc, bc)
        mi_old == [r \in 0..br - 1 |-> st.m[VecIndex(t, r, br)]]
        P == Probs(Si, NewMax(mi_old, Si, bc))
    IN  [x \in DOMAIN S |-> [y \in DOMAIN S[x] |->
            IF /\ x \in VecIndex(t, 0, br)..VecIndex(t, br - 1, br)
               /\ y \in (u * bc)..(u * bc + bc - 1)
            THEN P[x - VecIndex(t, 0, br)][y - u * bc]
            ELSE S[x][y]]]

\* The caller's array S_in after one pass of the inner loop body.  Si is a
\* view of S_in (line 53), but lines 61 and 63 bind the name Si to new arrays
\* (Si = Si - ..., Si = np.exp(Si)); no statement assigns through the view.
InputAfterBlock(S, st, t, u, br, tc, bc) == S

\* Mutant of InputAfterSimple: no copy is taken and the maxima are subtracted
\* in place.
InputAfterSimple_InPlace(S) ==
    [r \in DOMAIN S |-> [c \in DOMAIN S[r] |->
        FSub(S[r][c], FMaxOver(S[r], 0, Cols(S) - 1))]]

\* The caller's array S_in after simplesoftmax: line 6 copies it and every
\* later statement assigns to the local name S.
InputAfterSimple(S) == S

\* Mutant of FinalizeTile: every row of the tile is divided by the running sum
\* of the tile's first row.
FinalizeTile_FirstRow(st, t, br) ==
    LET InTile(x) == x \in VecIndex(t, 0, br)..VecIndex(t, br - 1, br)
    IN  [m |-> st.m,
         l |-> st.l,
         O |-> [x \in DOMAIN st.O |-> [y \in DOMAIN st.O[x] |->
                  IF InTile(x) THEN FDiv(st.O[x][y], st.l[VecIndex(t, 0, br)])
                  ELSE st.O[x][y]]]]

\* Otensor[t, :, :, :] /= np.expand_dims(ltensor[t, :], axis=(-2, -1))
FinalizeTile(st, t, br) ==
    LET InTile(x) == x \in VecIndex(t, 0, br)..VecIndex(t, br - 1, br)
    IN  [m |-> st.m,
         l |-> st.l,
         O |-> [x \in DOMAIN st.O |-> [y \in DOMAIN st.O[x] |->
                  IF InTile(x) THEN FDiv(st.O[x][y], st.l[x]) ELSE st.O[x][y]]]]

\* Mutant of ClampTile: the requested size is used as it is.
ClampTile_None(b, n) == b

\* Lines 23-24: a requested tile size larger than N is reduced to N.
ClampTile(b, n) == Min(b, n)

\* Mutant of Plan: a tile size of zero is given one tile instead of raising,
\* and the shapes are not compared with the array sizes.
Plan_Unchecked(S, BrA, BcA) ==
    LET N == Rows(S)
        br == ClampTile(BrA, N)
        bc == ClampTile(BcA, N)
        tr == IF br = 0 THEN 1 ELSE NumTiles(N, br)
        tc == IF bc = 0 THEN 1 ELSE NumTiles(N, bc)
    IN  [Br |-> br, Bc |-> bc, Tr |-> tr, Tc |-> tc,
         ok |-> (br <= 0 \/ bc <= 0 \/ N * N = tr * br * tc * bc)]

\* Lines 20-47: the tile sizes and tile counts in use, and whether the call
\* gets as far as the loops: the divisions N//Br and N//Bc raise
\* ZeroDivisionError for a tile size of 0, and each of the three reshapes (of
\* O, of m and l, of S_in) raises ValueError if its sizes disagree.
Plan(S, BrA, BcA) ==
    LET N == Rows(S)
        br == ClampTile(BrA, N)
        bc == ClampTile(BcA, N)
        tr == IF br = 0 THEN 0 ELSE NumTiles(N, br)
        tc == IF br = 0 \/ bc = 0 THEN 0 ELSE NumTiles(N, bc)
    IN  [Br |-> br, Bc |-> bc, Tr |-> tr, Tc |-> tc,
         ok |-> /\ br # 0
                /\ bc # 0
                /\ ReshapeOK(N * N, tr, br, tc, bc)
                /\ ReshapeDimsOK(N, <<tr, br>>)
                /\ ReshapeOK(N * Cols(S), tr, br, tc, bc)]

\* Mutant of InitialState: "- np.Infinity" is left out, m starts at 0.
InitialState_ZeroMax(N) ==
    [m |-> ZeroVector(N), l |-> ZeroVector(N), O |-> ZeroMatrix(N, N)]

\* Lines 35-37: O = 0, l = 0, m = -inf.
InitialState(N) ==
    [m |-> [r \in 0..N - 1 |-> NegInf], l |-> ZeroVector(N), O |-> ZeroMatrix(N, N)]

\* Lines 50-74 from block (t, u) on: the loops run row tiles in order and,
\* within a row tile, column tiles in order, then divide the row tile.
RECURSIVE RunTiles(_, _, _, _, _)
RunTiles(st, S, pl, t, u) ==
    IF t = pl.Tr THEN st
    ELSE IF u = pl.Tc THEN RunTiles(FinalizeTile(st, t, pl.Br), S, pl, t + 1, 0)
    ELSE RunTiles(UpdateBlock(st, S, t, u, pl.Br, pl.Tc, pl.Bc), S, pl, t, u + 1)

\* The call onlinesoftmax(S, BrA, BcA) as a function of its arguments: what it
\* returns, or that it raised.
onlinesoftmax(S, BrA, BcA) ==
    LET pl == Plan(S, BrA, BcA)
    IN  IF ~pl.ok THEN [status |-> "error"]
        ELSE LET st == RunTiles(InitialState(Rows(S)), S, pl, 0, 0)
             IN  [status |-> "done", O |-> st.O, l |-> st.l]

\* ------------------------------------------------------------- gen_golden_data
\* m0[i0, :] = -65504.0, the lowest finite float16.
Lowest16 == -65504

\* In float16 every power of two below 2^-24 (the smallest subnormal) rounds to 0.
Exp16Underflow == 25

\* np.exp in float16 arithmetic: as FExp, with underflow to 0.
FExp16(x) ==
    IF IsFinite(x) /\ x[1] <= -Exp16Underflow * x[2] THEN Zero ELSE FExp(x)

\* Mutant of GoldenBlock: the stored blocks of the row tile are rescaled by
\* the correction, as onlinesoftmax does.
GoldenBlock_Rescale(st, S, i0, i1, n2, n3) ==
    LET Sij == [a \in 0..n2 - 1 |-> [b \in 0..n3 - 1 |-> S[i0 * n2 + a][i1 * n3 + b]]]
        mi_old == [a \in 0..n2 - 1 |-> st.m[i0 * n2 + a]]
        mnew == [a \in 0..n2 - 1 |-> FMax(mi_old[a], FMaxOver(Sij[a], 0, n3 - 1))]
        Pi == [a \in 0..n2 - 1 |-> [b \in 0..n3 - 1 |->
                  FExp16(FSub(Sij[a][b], mnew[a]))]]
        expmidiff == [a \in 0..n2 - 1 |-> FExp16(FSub(mi_old[a], mnew[a]))]
        InTile(x) == x \in (i0 * n2)..(i0 * n2 + n2 - 1)
        Loc(x) == x - i0 * n2
    IN  [m |-> [x \in DOMAIN st.m |-> IF InTile(x) THEN mnew[Loc(x)] ELSE st.m[x]],
         l |-> [x \in DOMAIN st.l |->
                  IF InTile(x)
                  THEN FAdd(FMul(st.l[x], expmidiff[Loc(x)]), FSum(Pi[Loc(x)], 0, n3 - 1))
                  ELSE st.l[x]],
         O |-> [x \in DOMAIN st.O |-> [y \in DOMAIN st.O[x] |->
                  IF ~InTile(x) THEN st.O[x][y]
                  ELSE IF y \in (i1 * n3)..(i1 * n3 + n3 - 1)
                       THEN Pi[Loc(x)][y - i1 * n3]
                       ELSE FMul(st.O[x][y], expmidiff[Loc(x)])]]]

\* One pass of the inner loop body of gen_golden_data for row tile i0 and column
\* tile i1, on st = [m, l, O] standing for (m0, l0, S1).  Entry [i0, i1, a, b]
\* of S0 and S1 is entry [i0*n2 + a][i1*n3 + b] of the logical matrix.
GoldenBlock(st, S, i0, i1, n2, n3) ==
    LET Sij == [a \in 0..n2 - 1 |-> [b \in 0..n3 - 1 |-> S[i0 * n2 + a][i1 * n3 + b]]]
        mi_old == [a \in 0..n2 - 1 |-> st.m[i0 * n2 + a]]
        mnew == [a \in 0..n2 - 1 |-> FMax(mi_old[a], FMaxOver(Sij[a], 0, n3 - 1))]
        Pi == [a \in 0..n2 - 1 |-> [b \in 0..n3 - 1 |->
                  FExp16(FSub(Sij[a][b], mnew[a]))]]
        expmidiff == [a \in 0..n2 - 1 |-> FExp16(FSub(mi_old[a], mnew[a]))]
        InTile(x) == x \in (i0 * n2)..(i0 * n2 + n2 - 1)
        Loc(x) == x - i0 * n2
    IN  [m |-> [x \in DOMAIN st.m |-> IF InTile(x) THEN mnew[Loc(x)] ELSE st.m[x]],
         l |-> [x \in DOMAIN st.l |->
                  IF InTile(x)
                  THEN FAdd(FMul(st.l[x], expmidiff[Loc(x)]), FSum(Pi[Loc(x)], 0, n3 - 1))
                  ELSE st.l[x]],
         O |-> [x \in DOMAIN st.O |-> [y \in DOMAIN st.O[x] |->
                  IF InTile(x) /\ y \in (i1 * n3)..(i1 * n3 + n3 - 1)
                  THEN Pi[Loc(x)][y - i1 * n3]
                  ELSE st.O[x][y]]]]

\* ------------------------------------------------------------- initial states
Divides(a, b) == b % a = 0

\* A call of onlinesoftmax: a square matrix, or one with a column more or a
\* column less than it has rows, and requested tile sizes up to MaxB.
InitOnline ==
    /\ prog = "online"
    /\ \E N \in 1..MaxN, M \in 1..MaxN :
         /\ M \in {N - 1, N, N + 1}
         /\ \E K \in [0..M - 1 -> KVals("online")] : S_in = Scores(K, N, M)
    /\ BrArg \in 1..MaxB
    /\ BcArg \in 1..MaxB
    /\ Br = BrArg
    /\ Bc = BcArg
    /\ Tr = 0
    /\ Tc = 0
    /\ m = <<>>
    /\ l = <<>>
    /\ O = <<>>
    /\ i = 0
    /\ j = 0
    /\ pc = "start"
    /\ cnt = <<>>
    /\ fin = <<>>
    /\ env = <<>>
    /\ loc = <<>>

\* gen_golden_data after its arrays are allocated (line 56): the command line
\* gave n0, n1, n2, n3 >= 1 and S0 holds the scores.
InitGolden ==
    /\ prog = "golden"
    /\ \E N \in 1..MaxN, M \in 1..MaxN :
         /\ \E K \in [0..M - 1 -> KVals("golden")] : S_in = Scores(K, N, M)
         /\ Br \in {b \in 1..N : Divides(b, N)}
         /\ Bc \in {b \in 1..M : Divides(b, M)}
         /\ Tr = N \div Br
         /\ Tc = M \div Bc
         /\ m = ZeroVector(N)
         /\ l = ZeroVector(N)
         /\ O = ZeroMatrix(N, M)
    /\ BrArg = Br
    /\ BcArg = Bc
    /\ i = 0
    /\ j = 0
    /\ pc = "rowinit"
    /\ cnt = [t \in 0..Tr - 1 |-> 0]
    /\ fin = [t \in 0..Tr - 1 |-> 0]
    /\ env = <<>>
    /\ loc = <<>>

\* A call of simplesoftmax with a square matrix.
InitSimple ==
    /\ prog = "simple"
    /\ \E N \in 1..MaxN :
         \E K \in [0..N - 1 -> KVals("online")] : S_in = Scores(K, N, N)
    /\ BrArg = 0
    /\ BcArg = 0
    /\ Br = 0
    /\ Bc = 0
    /\ Tr = 0
    /\ Tc = 0
    /\ m = <<>>
    /\ l = <<>>
    /\ O = <<>>
    /\ i = 0
    /\ j = 0
    /\ pc = "start"
    /\ cnt = <<>>
    /\ fin = <<>>
    /\ env = <<>>
    /\ loc = <<>>

Init == InitOnline \/ InitGolden \/ InitSimple

\* ------------------------------------------------------------- simplesoftmax as a call
\* Lines 5-14: the whole function; O stands for the matrix it returns.
SimpleSoftmax ==
    /\ prog = "simple"
    /\ pc = "start"
    /\ O' = simplesoftmax(S_in)
    /\ S_in' = InputAfterSimple(S_in)
    /\ pc' = "done"
    /\ UNCHANGED <<env, loc, prog, BrArg, BcArg, Br, Bc, Tr, Tc, m, l, i, j, cnt, fin>>

\* ------------------------------------------------------------- actions of onlinesoftmax
\* Lines 18-47: clamp the tile sizes, count the tiles, allocate the outputs and
\* take the tensor views; ValueError ends the call.
Setup ==
    /\ prog = "online"
    /\ pc = "start"
    /\ LET pl == Plan(S_in, Br, Bc)
           st == InitialState(Rows(S_in))
       IN  /\ Br' = pl.Br
           /\ Bc' = pl.Bc
           /\ Tr' = pl.Tr
           /\ Tc' = pl.Tc
           /\ O' = st.O
           /\ l' = st.l
           /\ m' = st.m
           /\ cnt' = [t \in 0..pl.Tr - 1 |-> 0]
           /\ fin' = [t \in 0..pl.Tr - 1 |-> 0]
           /\ pc' = IF pl.ok THEN "loop" ELSE "error"
    /\ UNCHANGED <<env, loc, prog, S_in, BrArg, BcArg, i, j>>

\* Lines 53-72: the body of the inner loop for block (i, j).
Update ==
    /\ prog = "online"
    /\ pc = "loop"
    /\ i < Tr
    /\ j < Tc
    /\ LET st == UpdateBlock([m |-> m, l |-> l, O |-> O], S_in, i, j, Br, Tc, Bc)
       IN  /\ m' = st.m
           /\ l' = st.l
           /\ O' = st.O
    /\ S_in' = InputAfterBlock(S_in, [m |-> m, l |-> l, O |-> O], i, j, Br, Tc, Bc)
    /\ j' = j + 1
    /\ cnt' = [cnt EXCEPT ![i] = @ + 1]
    /\ UNCHANGED <<env, loc, prog, BrArg, BcArg, Br, Bc, Tr, Tc, i, pc, fin>>

\* Mutant of Finalize: the division sits inside the inner loop, so it may run
\* before the last column tile.
Finalize_Early ==
    /\ prog = "online"
    /\ pc = "loop"
    /\ i < Tr
    /\ j >= 1
    /\ O' = FinalizeTile([m |-> m, l |-> l, O |-> O], i, Br).O
    /\ i' = i + 1
    /\ j' = 0
    /\ fin' = [fin EXCEPT ![i] = @ + 1]
    /\ UNCHANGED <<env, loc, prog, S_in, BrArg, BcArg, Br, Bc, Tr, Tc, m, l, pc, cnt>>

\* Line 74: the inner loop is exhausted; divide row tile i by its running sum.
Finalize ==
    /\ prog = "online"
    /\ pc = "loop"
    /\ i < Tr
    /\ j = Tc
    /\ O' = FinalizeTile([m |-> m, l |-> l, O |-> O], i, Br).O
    /\ i' = i + 1
    /\ j' = 0
    /\ fin' = [fin EXCEPT ![i] = @ + 1]
    /\ UNCHANGED <<env, loc, prog, S_in, BrArg, BcArg, Br, Bc, Tr, Tc, m, l, pc, cnt>>

\* Lines 76-78: return (O, ltensor).
Return ==
    /\ prog = "online"
    /\ pc = "loop"
    /\ i = Tr
    /\ pc' = "done"
    /\ UNCHANGED <<env, loc, prog, S_in, BrArg, BcArg, Br, Bc, Tr, Tc, m, l, O, i, j, cnt, fin>>

\* ------------------------------------------------------------- actions of gen_golden_data
\* Lines 58-59: reset the running sum and running max of row tile i0.
GoldenRowInit ==
    /\ prog = "golden"
    /\ pc = "rowinit"
    /\ i < Tr
    /\ l' = [x \in DOMAIN l |-> IF x \in (i * Br)..(i * Br + Br - 1) THEN Zero ELSE l[x]]
    /\ m' = [x \in DOMAIN m |->
               IF x \in (i * Br)..(i * Br + Br - 1) THEN Int2F(Lowest16) ELSE m[x]]
    /\ pc' = "loop"
    /\ UNCHANGED <<env, loc, prog, S_in, BrArg, BcArg, Br, Bc, Tr, Tc, O, i, j, cnt, fin>>

\* Lines 61-75: the body of the inner loop for block (i0, i1); after the last
\* column tile the outer loop moves to the next row tile.
GoldenUpdate ==
    /\ prog = "golden"
    /\ pc = "loop"
    /\ j < Tc
    /\ LET st == GoldenBlock([m |-> m, l |-> l, O |-> O], S_in, i, j, Br, Bc)
       IN  /\ m' = st.m
           /\ l' = st.l
           /\ O' = st.O
    /\ cnt' = [cnt EXCEPT ![i] = @ + 1]
    /\ IF j + 1 < Tc
       THEN j' = j + 1 /\ UNCHANGED <<i, pc>>
       ELSE j' = 0 /\ i' = i + 1 /\ pc' = "rowinit"
    /\ UNCHANGED <<env, loc, prog, S_in, BrArg, BcArg, Br, Bc, Tr, Tc, fin>>

\* Lines 82-90: the outer loop is exhausted; write m0, l0 and S1.
GoldenWrite ==
    /\ prog = "golden"
    /\ pc = "rowinit"
    /\ i = Tr
    /\ pc' = "done"
    /\ UNCHANGED <<env, loc, prog, S_in, BrArg, BcArg, Br, Bc, Tr, Tc, m, l, O, i, j, cnt, fin>>

Next ==
    \/ Setup
    \/ Update
    \/ Finalize
    \/ Return
    \/ GoldenRowInit
    \/ GoldenUpdate
    \/ GoldenWrite
    \/ SimpleSoftmax

Spec == Init /\ [][Next]_vars

\* ------------------------------------------------------------- row tiles as tasks
\* The loop bodies of onlinesoftmax run as one task per row tile: each task
\* applies the block updates of its row tile in column order and then the
\* division, and the tasks are interleaved arbitrarily.  cnt[t] and fin[t]
\* are the position of task t.  The scores are square, built from a key
\* vector that rises along the row or falls along it.
InitPar ==
    /\ prog = "online"
    /\ \E N \in 1..MaxN :
         \E K \in {[c \in 0..N - 1 |-> c % (MaxVal + 1)],
                   [c \in 0..N - 1 |-> (N - 1 - c) % (MaxVal + 1)]} :
            S_in = Scores(K, N, N)
    /\ BrArg \in 1..MaxB
    /\ BcArg \in 1..MaxB
    /\ Br = BrArg
    /\ Bc = BcArg
    /\ Tr = 0
    /\ Tc = 0
    /\ m = <<>>
    /\ l = <<>>
    /\ O = <<>>
    /\ i = 0
    /\ j = 0
    /\ pc = "start"
    /\ cnt = <<>>
    /\ fin = <<>>
    /\ env = <<>>
    /\ loc = <<>>

ParUpdate(t) ==
    /\ pc = "loop"
    /\ t \in DOMAIN cnt
    /\ cnt[t] < Tc
    /\ LET st == UpdateBlock([m |-> m, l |-> l, O |-> O], S_in, t, cnt[t], Br, Tc, Bc)
       IN  /\ m' = st.m
           /\ l' = st.l
           /\ O' = st.O
    /\ S_in' = InputAfterBlock(S_in, [m |-> m, l |-> l, O |-> O], t, cnt[t], Br, Tc, Bc)
    /\ cnt' = [cnt EXCEPT ![t] = @ + 1]
    /\ UNCHANGED <<env, loc, prog, BrArg, BcArg, Br, Bc, Tr, Tc, i, j, pc, fin>>

ParFinalize(t) ==
    /\ pc = "loop"
    /\ t \in DOMAIN cnt
    /\ cnt[t] = Tc
    /\ fin[t] = 0
    /\ O' = FinalizeTile([m |-> m, l |-> l, O |-> O], t, Br).O
    /\ fin' = [fin EXCEPT ![t] = @ + 1]
    /\ UNCHANGED <<env, loc, prog, S_in, BrArg, BcArg, Br, Bc, Tr, Tc, m, l, i, j, pc, cnt>>

ParReturn ==
    /\ pc = "loop"
    /\ \A t \in DOMAIN fin : fin[t] = 1
    /\ pc' = "done"
    /\ UNCHANGED <<env, loc, prog, S_in, BrArg, BcArg, Br, Bc, Tr, Tc, m, l, O, i, j, cnt, fin>>

NextPar ==
    \/ Setup
    \/ \E t \in 0..MaxN - 1 : ParUpdate(t)
    \/ \E t \in 0..MaxN - 1 : ParFinalize(t)
    \/ ParReturn

SpecPar == InitPar /\ [][NextPar]_vars

\* ------------------------------------------------------------- unusual calls
\* Calls of onlinesoftmax with masked scores, and calls with a tile size or a
\* matrix dimension that is not positive.
MaxEdge == MaxN - 1

\* A key vector that rises along the row, and one that falls along it.
Rising(n) == [c \in 0..n - 1 |-> c % (MaxVal + 1)]
Falling(n) == [c \in 0..n - 1 |-> (n - 1 - c) % (MaxVal + 1)]

\* Scores with masked entries, a masked entry being -inf: row r is left as it
\* is (RK[r] = "none"), masked right of the diagonal ("tail") or masked
\* entirely ("all").
MaskedScores(K, N, RK) ==
    [r \in 0..N - 1 |-> [c \in 0..N - 1 |->
        IF RK[r] = "all" \/ (RK[r] = "tail" /\ c > r) THEN NegInf
        ELSE Scores(K, N, N)[r][c]]]

\* A call with a square matrix of scores, some of them masked.
InitMasked ==
    /\ prog = "online"
    /\ \E N \in 1..MaxEdge :
         \E K \in {Rising(N), Falling(N)}, RK \in [0..N - 1 -> {"none", "tail", "all"}] :
            S_in = MaskedScores(K, N, RK)
    /\ BrArg \in 1..MaxB
    /\ BcArg \in 1..MaxB
    /\ Br = BrArg
    /\ Bc = BcArg
    /\ Tr = 0
    /\ Tc = 0
    /\ m = <<>>
    /\ l = <<>>
    /\ O = <<>>
    /\ i = 0
    /\ j = 0
    /\ pc = "start"
    /\ cnt = <<>>
    /\ fin = <<>>
    /\ env = <<>>
    /\ loc = <<>>

\* The matrix has no rows or no columns.
NoEntries(S) == IF Rows(S) = 0 THEN TRUE ELSE Cols(S) = 0

\* A call with finite scores in which a tile size is zero or negative, or the
\* matrix has no rows (np.zeros((0, x))) or no columns (np.zeros((N, 0))).
InitConfig ==
    /\ prog = "online"
    /\ \E N \in 0..MaxEdge, M \in 0..MaxEdge :
         /\ M \in {0, N}
         /\ S_in = [r \in 0..N - 1 |-> [c \in 0..M - 1 |-> Int2F(Rising(M)[c])]]
    /\ BrArg \in (-MaxB)..MaxB
    /\ BcArg \in (-MaxB)..MaxB
    /\ (BrArg <= 0 \/ BcArg <= 0 \/ NoEntries(S_in))
    /\ Br = BrArg
    /\ Bc = BcArg
    /\ Tr = 0
    /\ Tc = 0
    /\ m = <<>>
    /\ l = <<>>
    /\ O = <<>>
    /\ i = 0
    /\ j = 0
    /\ pc = "start"
    /\ cnt = <<>>
    /\ fin = <<>>
    /\ env = <<>>
    /\ loc = <<>>

NextOnline ==
    \/ Setup
    \/ Update
    \/ Finalize
    \/ Return

SpecEdge == (InitMasked \/ InitConfig) /\ [][NextOnline]_vars

\* ------------------------------------------------------------- the check_data scripts
\* examples/unittests/check_data_onlinesoftmaxOp.py, check_data_softmaxOp-v3.py,
\* check_data_softmaxOp-v4.py and check_data_movedataOp-v01.py.  prog is the
\* script, env = [argv, files] its command line (without the script name) and
\* the files under ./output, loc = [check, ncmp, said, exit] its variable
\* check, the number of comparisons made, what it printed last and its exit
\* status (-1 while it runs).  The values in the files are exact numbers; a
\* norm is carried as its square, and "norm < tol" is decided as
\* "norm^2 < tol^2", which is the same on non-negative numbers.
MaxDim == 2

Scripts3 == {"check_data_softmaxOp-v3", "check_data_softmaxOp-v4", "check_data_movedataOp-v01"}

NoFile == [there |-> FALSE, data |-> <<>>]
File(v) == [there |-> TRUE, data |-> v]

\* A file of n values x, and one whose first value is off by d.
Vec(n, x) == [k \in 1..n |-> x]
Perturbed(n, x, d) == [k \in 1..n |-> IF k = 1 THEN FAdd(x, d) ELSE x]

\* The tolerances of check_data_onlinesoftmaxOp.py (lines 61, 86, 118) and
\* tol of the other three scripts (line 22).
TolM == <<1, 10000>>
TolL == <<1, 100>>
TolS == <<1, 10000>>
Tol == <<1, 100>>

\* x < y in Python: False if either side is NaN.
PyLess(x, y) == ~IsNaN(x) /\ ~IsNaN(y) /\ FLess(x, y)

\* np.linalg.norm(v)^2 and np.linalg.norm(out - gold)^2.
NormSq(v) == FSum([k \in DOMAIN v |-> FMul(v[k], v[k])], 1, Len(v))
DiffSq(out, gold) ==
    FSum([k \in DOMAIN gold |-> FMul(FSub(out[k], gold[k]), FSub(out[k], gold[k]))],
         1, Len(gold))

\* norm_diff < tol
AbsBelow(out, gold, tol) == PyLess(DiffSq(out, gold), FMul(tol, tol))

\* norm_diff / np.linalg.norm(golden) < tol; the quotient is inf or NaN for a
\* golden file of zeros.
RelBelow(out, gold, tol) ==
    PyLess(FDiv(DiffSq(out, gold), NormSq(gold)), FMul(tol, tol))

\* np.fromfile raises FileNotFoundError for a missing file, and np.reshape to
\* a shape of n elements raises ValueError for a file of another length.
Loads(f, n) == f.there /\ Len(f.data) = n

RECURSIVE Product(_)
Product(dims) == IF dims = <<>> THEN 1 ELSE Head(dims) * Product(Tail(dims))

\* The number of command-line arguments the script asserts (its last lines).
ArgCount(p) ==
    CASE p = "check_data_onlinesoftmaxOp" -> 4
      [] p = "check_data_softmaxOp-v3" -> 4
      [] p = "check_data_softmaxOp-v4" -> 6
      [] p = "check_data_movedataOp-v01" -> 3

\* shape3 = (n0, n2) and shape4 = (n0, n1, n2, n3) of check_data_onlinesoftmaxOp.py.
Shape3Size(argv) == argv[1] * argv[3]
Shape4Size(argv) == argv[1] * argv[2] * argv[3] * argv[4]

\* The number of elements golden.bin and param1.bin are reshaped to: shape1
\* of the softmax scripts, (M, N) = (n0*n1, n2) of the move-data script.
ShapeSize(p, argv) == Product(argv)

\* check_data_movedataOp-v01.py prints rows 0, 1, -2 and -1 of the reshaped
\* arrays (lines 48 and 59), which raises IndexError for fewer than two rows.
RowsPrintable(p, argv) ==
    p = "check_data_movedataOp-v01" => argv[1] * argv[2] >= 2

\* Mutant of Accumulate: the result of the comparison replaces check.
Accumulate_Last(check, pass) == pass

\* check = check and ( ... )
Accumulate(check, pass) == check /\ pass

\* Differences around the tolerances 1e-4 and 1e-2, and a large one.
Deltas4 == {Zero, <<1, 10001>>, <<1, 10000>>, One}
Deltas2 == {Zero, <<1, 101>>, <<1, 100>>, One}

\* The files tried for a golden file and its output file, n values each: the
\* golden file holds ones or zeros, or is missing or one value too long; the
\* output file is off by a difference in D in its first value, or is missing
\* or one value too long.
FilePairs(n, D) ==
    {<<g, o>> : g \in {NoFile, File(Vec(n, One)), File(Vec(n + 1, One))},
                o \in {NoFile, File(Vec(n + 1, One))}
                          \cup {File(Perturbed(n, One, d)) : d \in D}}
    \cup {<<g, o>> : g \in {File(Vec(n, Zero))},
                     o \in {NoFile} \cup {File(Perturbed(n, Zero, d)) : d \in D}}

\* The command lines tried: the asserted number of sizes, or one too few.
ArgvSet(p) ==
    {[k \in 1..ArgCount(p) |-> IF k <= 2 THEN n ELSE 1] : n \in 1..MaxDim}
    \cup {[k \in 1..ArgCount(p) - 1 |-> 1]}

\* The variables of the check scripts at their start; the variables of the
\* softmax programs are not in use.
ScriptStart ==
    /\ loc = [check |-> TRUE, ncmp |-> 0, said |-> "", exit |-> -1]
    /\ pc = "main"
    /\ S_in = <<>>
    /\ BrArg = 0
    /\ BcArg = 0
    /\ Br = 0
    /\ Bc = 0
    /\ Tr = 0
    /\ Tc = 0
    /\ m = <<>>
    /\ l = <<>>
    /\ O = <<>>
    /\ i = 0
    /\ j = 0
    /\ cnt = <<>>
    /\ fin = <<>>

\* A size of the command line that has the asserted length (1 otherwise).
SizeOr1(p, argv, size) == IF Len(argv) = ArgCount(p) THEN size ELSE 1

InitCheckOnline ==
    /\ prog = "check_data_onlinesoftmaxOp"
    /\ \E argv \in ArgvSet(prog) :
         LET n3 == SizeOr1(prog, argv, Shape3Size(argv))
             n4 == SizeOr1(prog, argv, Shape4Size(argv))
         IN  \E fm \in FilePairs(n3, Deltas4), fl \in FilePairs(n3, Deltas2),
                fs \in FilePairs(n4, Deltas4) :
                env = [argv |-> argv,
                       files |-> [m0_golden |-> fm[1], param0 |-> fm[2],
                                  l0_golden |-> fl[1], param1 |-> fl[2],
                                  s1_golden |-> fs[1], param3 |-> fs[2]]]
    /\ ScriptStart

InitCheckOthers ==
    /\ prog \in Scripts3
    /\ \E argv \in ArgvSet(prog) :
         \E f \in FilePairs(SizeOr1(prog, argv, ShapeSize(prog, argv)), Deltas2) :
            env = [argv |-> argv, files |-> [golden |-> f[1], param1 |-> f[2]]]
    /\ ScriptStart

\* An uncaught exception: Python prints the traceback and exits with status 1.
Raise ==
    /\ loc' = [loc EXCEPT !.said = "Traceback", !.exit = 1]
    /\ pc' = "exited"

ScriptFrame ==
    UNCHANGED <<env, prog, S_in, BrArg, BcArg, Br, Bc, Tr, Tc, m, l, O, i, j, cnt, fin>>

\* The last lines of each script: assert(len(sys.argv)==...), then the call
\* of check_golden_data.
CheckArgs ==
    /\ prog \in Scripts3 \cup {"check_data_onlinesoftmaxOp"}
    /\ pc = "main"
    /\ IF Len(env.argv) # ArgCount(prog) THEN Raise
       ELSE /\ pc' = (IF prog \in Scripts3 THEN "golden" ELSE "m")
            /\ UNCHANGED loc
    /\ ScriptFrame

\* check_data_onlinesoftmaxOp.py lines 38-62: the running max, compared by
\* the absolute norm of the difference.
CompareM ==
    /\ prog = "check_data_onlinesoftmaxOp"
    /\ pc = "m"
    /\ LET g == env.files.m0_golden
           o == env.files.param0
           n == Shape3Size(env.argv)
       IN  IF ~(Loads(g, n) /\ Loads(o, n)) THEN Raise
           ELSE /\ loc' = [loc EXCEPT
                              !.check = Accumulate(@, AbsBelow(o.data, g.data, TolM)),
                              !.ncmp = @ + 1]
                /\ pc' = "l"
    /\ ScriptFrame

\* Lines 66-87: the running sum, compared by the relative norm.
CompareL ==
    /\ prog = "check_data_onlinesoftmaxOp"
    /\ pc = "l"
    /\ LET g == env.files.l0_golden
           o == env.files.param1
           n == Shape3Size(env.argv)
       IN  IF ~(Loads(g, n) /\ Loads(o, n)) THEN Raise
           ELSE /\ loc' = [loc EXCEPT
                              !.check = Accumulate(@, RelBelow(o.data, g.data, TolL)),
                              !.ncmp = @ + 1]
                /\ pc' = "s"
    /\ ScriptFrame

\* Lines 90-119: the probabilities, compared by the relative norm.
CompareS ==
    /\ prog = "check_data_onlinesoftmaxOp"
    /\ pc = "s"
    /\ LET g == env.files.s1_golden
           o == env.files.param3
           n == Shape4Size(env.argv)
       IN  IF ~(Loads(g, n) /\ Loads(o, n)) THEN Raise
           ELSE /\ loc' = [loc EXCEPT
                              !.check = Accumulate(@, RelBelow(o.data, g.data, TolS)),
                              !.ncmp = @ + 1]
                /\ pc' = "verdict"
    /\ ScriptFrame

\* The softmax and move-data scripts up to their loop: golden.bin is read and
\* reshaped (and, in the move-data script, four of its rows are printed).
LoadGolden ==
    /\ prog \in Scripts3
    /\ pc = "golden"
    /\ IF /\ Loads(env.files.golden, ShapeSize(prog, env.argv))
          /\ RowsPrintable(prog, env.argv)
       THEN pc' = "outputs" /\ UNCHANGED loc
       ELSE Raise
    /\ ScriptFrame

\* outfiles = glob.glob("./output/param1.bin"): the list of the one name if
\* that file exists, the empty list if it does not.
OutFiles(files) == IF files.param1.there THEN <<"param1">> ELSE <<>>

\* The loop over outfiles, which has at most one pass: the output is read,
\* reshaped and compared by the relative norm.  With no output file the loop
\* body does not run and check keeps its value.
CompareOutputs ==
    /\ prog \in Scripts3
    /\ pc = "outputs"
    /\ IF OutFiles(env.files) = <<>> THEN pc' = "verdict" /\ UNCHANGED loc
       ELSE LET g == env.files.golden
                o == env.files.param1
            IN  IF ~Loads(o, ShapeSize(prog, env.argv)) THEN Raise
                ELSE /\ loc' = [loc EXCEPT
                                   !.check = Accumulate(@, RelBelow(o.data, g.data, Tol)),
                                   !.ncmp = @ + 1]
                     /\ pc' = "verdict"
    /\ ScriptFrame

\* if(check): "Test OK!" and the script ends (status 0); else "Test Failed"
\* and sys.exit(1).
Verdict ==
    /\ prog \in Scripts3 \cup {"check_data_onlinesoftmaxOp"}
    /\ pc = "verdict"
    /\ loc' = IF loc.check THEN [loc EXCEPT !.said = "Test OK!", !.exit = 0]
              ELSE [loc EXCEPT !.said = "Test Failed", !.exit = 1]
    /\ pc' = "exited"
    /\ ScriptFrame

NextCheck ==
    \/ CheckArgs
    \/ CompareM
    \/ CompareL
    \/ CompareS
    \/ LoadGolden
    \/ CompareOutputs
    \/ Verdict

SpecCheck == (InitCheckOnline \/ InitCheckOthers) /\ [][NextCheck]_vars

\* ------------------------------------------------------------- tools/ctest-junit-parse.py
\* env = [categories, xmls, remove, logs]: the categories on the command line
\* (in order), the file <category>.xml of each category, how
\* --remove-successful-logs-from was given ("none": not given, "dir": an
\* existing directory, "nodir": a path that is no directory) and the log
\* files found at the start, <<category, test>> standing for the file
\* <directory>/<category>/output/<test>-output.log.
\* loc = [total, passed, logs, exit]: total_num_failures,
\* per_category_passed_tests, the log files that exist now and the exit status.
ALL_CATEGORIES == {"unit", "performance", "smoke"}

\* The categories and test names tried.
Categories == {"unit", "smoke"}
TestNames == {"a", "b"}

\* The statuses CTest writes: passed, failed, skipped, disabled; "absent"
\* stands for a test the file does not list.
Statuses == {"run", "fail", "notrun", "disabled"}

\* The number of tests of the file with the given status.
CountStatus(cases, st) == Cardinality({n \in DOMAIN cases : cases[n] = st})

\* A JUnit file as CTest writes it: the root's attributes count its test cases.
XmlOf(cases) ==
    [there |-> TRUE,
     tests |-> Cardinality({n \in DOMAIN cases : cases[n] \in Statuses}),
     failures |-> CountStatus(cases, "fail"),
     disabled |-> CountStatus(cases, "disabled"),
     skipped |-> CountStatus(cases, "notrun"),
     cases |-> cases]

NoXml == [there |-> FALSE, tests |-> 0, failures |-> 0, disabled |-> 0, skipped |-> 0,
          cases |-> [n \in TestNames |-> "absent"]]

\* root.findall('./testcase[@status="..."]') and the names of what it finds.
FilterTestNames(xml, st) == {n \in DOMAIN xml.cases : xml.cases[n] = st}

\* analyze_tests, lines 66-100: the number of failures and the passed tests.
AnalyzeTests(xml) ==
    LET num_passed == xml.tests - xml.failures - xml.disabled - xml.skipped
    IN  [failures |-> xml.failures,
         passed |-> IF num_passed > 0 THEN FilterTestNames(xml, "run") ELSE {}]

\* Mutant of LogFiles: the category is left out of the path, so that the log
\* of a test of that name is removed in every category.
LogFiles_AnyCategory(category, names) ==
    {<<c, n>> : c \in ALL_CATEGORIES, n \in names}

\* Lines 123-127: the log files of the given tests of one category.
LogFiles(category, names) == {<<category, n>> : n \in names}

InitJunit ==
    /\ prog = "ctest-junit-parse"
    /\ \E cats \in {<<a>> : a \in Categories} \cup {<<a, b>> : a \in Categories, b \in Categories},
          x \in [Categories -> {NoXml} \cup
                    {XmlOf(c) : c \in [TestNames -> Statuses \cup {"absent"}]}],
          rm \in {"none", "dir", "nodir"},
          onlyUnit \in BOOLEAN :
            env = [categories |-> cats,
                   xmls |-> x,
                   remove |-> rm,
                   logs |-> {<<c, n>> \in Categories \X TestNames :
                               /\ x[c].cases[n] # "absent"
                               /\ onlyUnit => c = "unit"}]
    /\ loc = [total |-> 0, passed |-> [c \in Categories |-> {}], logs |-> env.logs,
              exit |-> -1]
    /\ pc = "analyze"
    /\ S_in = <<>>
    /\ BrArg = 0
    /\ BcArg = 0
    /\ Br = 0
    /\ Bc = 0
    /\ Tr = 0
    /\ Tc = 0
    /\ m = <<>>
    /\ l = <<>>
    /\ O = <<>>
    /\ i = 0
    /\ j = 0
    /\ cnt = <<>>
    /\ fin = <<>>

JunitFrame ==
    UNCHANGED <<env, prog, S_in, BrArg, BcArg, Br, Bc, Tr, Tc, m, l, O, j, cnt, fin>>

\* Mutant of ExitStatus: the number of failures is not looked at.
ExitStatus_Zero(total) == 0

\* sys.exit( 0 if total_num_failures == 0 else 1 )
ExitStatus(total) == IF total = 0 THEN 0 ELSE 1

\* Lines 104-109: one pass of the first loop; ET.parse raises for a missing
\* file and the script ends with a traceback and status 1.
Analyze ==
    /\ prog = "ctest-junit-parse"
    /\ pc = "analyze"
    /\ i < Len(env.categories)
    /\ LET category == env.categories[i + 1]
           xml == env.xmls[category]
           res == AnalyzeTests(xml)
       IN  IF ~xml.there
           THEN /\ loc' = [loc EXCEPT !.exit = 1]
                /\ pc' = "exited"
                /\ UNCHANGED i
           ELSE /\ loc' = [loc EXCEPT !.total = @ + res.failures,
                                      !.passed[category] = res.passed]
                /\ i' = i + 1
                /\ UNCHANGED pc
    /\ JunitFrame

\* Lines 111-119: without the option the script ends here; with a path that
\* is no directory it ends with status 1; otherwise the second loop starts.
Decide ==
    /\ prog = "ctest-junit-parse"
    /\ pc = "analyze"
    /\ i = Len(env.categories)
    /\ IF env.remove = "none"
       THEN /\ loc' = [loc EXCEPT !.exit = ExitStatus(loc.total)]
            /\ pc' = "exited"
       ELSE IF env.remove = "nodir"
       THEN /\ loc' = [loc EXCEPT !.exit = 1]
            /\ pc' = "exited"
       ELSE /\ pc' = "remove"
            /\ UNCHANGED loc
    /\ i' = 0
    /\ JunitFrame

\* Lines 120-138: one pass of the second loop: the logs of the passed tests
\* of the category are removed, those that do not exist are skipped.
RemoveLogs ==
    /\ prog = "ctest-junit-parse"
    /\ pc = "remove"
    /\ i < Len(env.categories)
    /\ LET category == env.categories[i + 1]
       IN  loc' = [loc EXCEPT !.logs = @ \ LogFiles(category, loc.passed[category])]
    /\ i' = i + 1
    /\ UNCHANGED pc
    /\ JunitFrame

\* Line 140.
Exit ==
    /\ prog = "ctest-junit-parse"
    /\ pc = "remove"
    /\ i = Len(env.categories)
    /\ loc' = [loc EXCEPT !.exit = ExitStatus(loc.total)]
    /\ pc' = "exited"
    /\ UNCHANGED i
    /\ JunitFrame

NextJunit ==
    \/ Analyze
    \/ Decide
    \/ RemoveLogs
    \/ Exit

SpecJunit == InitJunit /\ [][NextJunit]_vars

\* ------------------------------------------------------------- notions the claims use
\* The rows of row tile t.
TileRows(t) == (t * Br)..(t * Br + Br - 1)

\* The number of columns in column tiles 0..k-1.
ColsDone(k) == Min(k * Bc, Cols(S_in))

\* The true maximum of the full logical row r of the scores.
TrueMax(r) == FMaxOver(S_in[r], 0, Cols(S_in) - 1)

\* Sum over the columns c < n of exp(S[r][c] - mx).
RECURSIVE ExpSum(_, _, _)
ExpSum(r, n, mx) ==
    IF n = 0 THEN Zero
    ELSE FAdd(ExpSum(r, n - 1, mx), FExp(FSub(S_in[r][n - 1], mx)))

Square == Rows(S_in) = Cols(S_in)
Ended == pc \in {"done", "error"}

\* ------------------------------------------------------------- claims
\* C1: for every valid N, M, Br, Bc the call onlinesoftmax(S, Br, Bc) returns
\* the matrix simplesoftmax(S), whatever the block sizes.  Stated here for
\* square matrices only, the inputs simplesoftmax itself accepts.
C1_OnlineEqualsOracle ==
    (prog = "online" /\ Ended /\ Square) =>
        (pc = "done" /\ O = simplesoftmax(S_in))

\* What the code does satisfy: a call that returns, returns the oracle's matrix.
ReturnedEqualsOracle ==
    (prog = "online" /\ pc = "done") => O = simplesoftmax(S_in)

\* C2: once all column tiles of a row tile have been processed, the running
\* max of each of its rows is the true maximum of the full row of scores, in
\* onlinesoftmax (m) and in gen_golden_data (m0).
C2_RunningMaxIsRowMax ==
    \A t \in DOMAIN cnt :
        cnt[t] = Tc => \A r \in TileRows(t) : m[r] = TrueMax(r)

\* A row tile of two rows, fully processed in several column tiles, whose
\* first row has its maximum outside the first column tile.
C2_Witness ==
    /\ prog = "online"
    /\ pc = "done"
    /\ Tr >= 2 /\ Br >= 2 /\ Tc >= 2
    /\ m[0] # FMaxOver(S_in[0], 0, Bc - 1)

\* C3: after the update for column tile j of a row tile, the running sum of
\* each of its rows is the sum of exp(S[r][k] - m[r]) over the columns k of
\* tiles 0..j, m[r] being the current running max.
C3_Conservation ==
    \A t \in DOMAIN cnt :
        cnt[t] >= 1 =>
            \A r \in TileRows(t) : l[r] = ExpSum(r, ColsDone(cnt[t]), m[r])

\* A row whose running max rose twice after its first column tile.
C3_Witness ==
    /\ prog = "online"
    /\ pc = "loop"
    /\ Tc >= 3
    /\ cnt[0] = 3
    /\ FLess(S_in[0][0], S_in[0][Bc])
    /\ FLess(S_in[0][Bc], S_in[0][2 * Bc])
    /\ Bc = 1

\* The sum of the entries of row r of O.
RowSum(r) == FSum(O[r], 0, Cols(O) - 1)

\* C4: every row of the matrix onlinesoftmax returns sums to 1; equivalently,
\* just before a row tile is divided, each of its rows of O sums to l[r].
C4_RowsSumToOne ==
    prog = "online" =>
        \A t \in DOMAIN fin :
            /\ fin[t] >= 1 => \A r \in TileRows(t) : RowSum(r) = One
            /\ (cnt[t] = Tc /\ fin[t] = 0) => \A r \in TileRows(t) : RowSum(r) = l[r]

\* A returned matrix of several row and column tiles with a non-uniform row
\* and two rows of different running sums.
C4_Witness ==
    /\ prog = "online"
    /\ pc = "done"
    /\ Tr >= 2 /\ Tc >= 2 /\ Br >= 2
    /\ O[0][0] # O[0][1]
    /\ l[0] # l[1]

\* A step that applies a block update (of either program).
IsUpdateStep == pc = "loop" /\ cnt' # cnt

\* C5: across the column-tile updates of a row tile the running max of a row
\* never decreases.
C5_MaxMonotone ==
    [][IsUpdateStep => \A r \in DOMAIN m : FLeq(m[r], m'[r])]_vars

\* A row whose running max rose in an update after the first one.
C5_Witness ==
    /\ pc = "loop"
    /\ cnt[0] >= 2
    /\ FLess(FMaxOver(S_in[0], 0, Bc - 1), m[0])

\* The requested tiling leaves an undersized last row or column tile.
Ragged ==
    \/ ~Divides(Min(BrArg, Rows(S_in)), Rows(S_in))
    \/ ~Divides(Min(BcArg, Cols(S_in)), Cols(S_in))

\* C6: when Br does not divide N (or Bc does not divide the number of columns)
\* onlinesoftmax processes Tr = ceil(N/Br) row tiles, the last one undersized;
\* the call completes and returns the correct matrix.
C6_RaggedTilesComplete ==
    (prog = "online" /\ Ended /\ Square /\ Ragged) =>
        /\ pc = "done"
        /\ Tr * Br >= Rows(S_in) /\ (Tr - 1) * Br < Rows(S_in)
        /\ O = simplesoftmax(S_in)

\* What the code does with a ragged tiling: the tile counts are the ceilings,
\* and the call raises before any block is processed.
RaggedRaises ==
    (prog = "online" /\ Ended /\ Square /\ Ragged) =>
        /\ pc = "error"
        /\ Tr * Br >= Rows(S_in) /\ (Tr - 1) * Br < Rows(S_in)
        /\ \A t \in DOMAIN cnt : cnt[t] = 0

Outcome ==
    IF pc = "done" THEN [status |-> "done", O |-> O, l |-> l]
    ELSE [status |-> "error"]

TileState(mm, ll, OO, t) ==
    [r \in TileRows(t) |-> <<mm[r], ll[r], OO[r]>>]

\* The columns of column tile u.
BlockCols(u) == (u * Bc)..(u * Bc + Bc - 1)

\* What C8 asks of one step, for every row tile t.
LifecycleStep ==
    (prog = "online" /\ pc = "loop") =>
        \A t \in DOMAIN cnt :
            /\ cnt'[t] \in {cnt[t], cnt[t] + 1}
            /\ fin'[t] \in {fin[t], fin[t] + 1}
            /\ ~(cnt'[t] # cnt[t] /\ fin'[t] # fin[t])
            /\ cnt'[t] = cnt[t] + 1 =>
                 /\ cnt[t] < Tc
                 /\ fin[t] = 0
                 /\ \A r \in TileRows(t) :
                      /\ \A c \in BlockCols(cnt[t]) : O'[r][c] # Zero
                      /\ \A c \in DOMAIN O[r] : c >= (cnt[t] + 1) * Bc => O'[r][c] = Zero
            /\ fin'[t] = fin[t] + 1 =>
                 /\ cnt[t] = Tc
                 /\ fin[t] = 0
            /\ (cnt'[t] = cnt[t] /\ fin'[t] = fin[t]) =>
                 TileState(m', l', O', t) = TileState(m, l, O, t)
            /\ fin[t] >= 1 => TileState(m', l', O', t) = TileState(m, l, O, t)

\* C8: in onlinesoftmax the state (m, l, O) of row tile t is updated once per
\* column tile, in the order j = 0..Tc-1; it is divided by l once, only after
\* the update for j = Tc-1; and it is never written after that division.
C8_Lifecycle ==
    /\ [][LifecycleStep]_vars
    /\ []((prog = "online" /\ pc = "done") =>
            \A t \in DOMAIN cnt : cnt[t] = Tc /\ fin[t] = 1)

\* A returned call that had several row tiles and several column tiles.
C8_Witness ==
    /\ prog = "online"
    /\ pc = "done"
    /\ Tr >= 2
    /\ Tc >= 3
    /\ \A t \in DOMAIN cnt : cnt[t] = Tc /\ fin[t] = 1

\* A step leaves the state of every row tile it does not advance unchanged.
FrameStep ==
    pc = "loop" =>
        \A t \in DOMAIN cnt :
            (cnt'[t] = cnt[t] /\ fin'[t] = fin[t]) =>
                TileState(m', l', O', t) = TileState(m, l, O, t)

\* C9: a step of row tile t leaves the state of every other row tile
\* unchanged, and every interleaving of the row tiles' step sequences ends
\* with the O and l of the sequential row-major run.
C9_RowTilesIndependent ==
    /\ [][FrameStep]_vars
    /\ [](pc = "done" => Outcome = onlinesoftmax(S_in, BrArg, BcArg))

\* Two row tiles in flight at once, the later one ahead of the earlier one.
C9_Witness ==
    /\ pc = "loop"
    /\ Tr >= 2 /\ Tc >= 2 /\ Br >= 2
    /\ cnt[0] = 1
    /\ fin[1] = 1
    /\ m[0] # m[Br]

\* What C10 asks of one step: the block just stored.
StableStep ==
    IsUpdateStep =>
        \A t \in DOMAIN cnt :
            cnt'[t] = cnt[t] + 1 =>
                \A r \in TileRows(t) : \A c \in BlockCols(cnt[t]) :
                    /\ FLeq(FSub(S_in[r][c], m'[r]), Zero)
                    /\ FLeq(O'[r][c], One)
                    /\ IsFinite(O'[r][c])

\* C10: in every block update the exponent S[r][c] - m_new[r] is at most 0
\* for every entry of the block, so no entry of P exceeds 1.
C10_ExponentsNonPositive == [][StableStep]_vars

\* A block was stored whose first row holds an entry below 1 and an entry 1.
C10_Witness ==
    /\ pc = "loop"
    /\ Bc >= 2
    /\ cnt[0] = 1
    /\ fin[0] = 0
    /\ {O[0][0], O[0][1]} = {One, <<1, 4>>}

\* Every score of row r is masked.
FullyMasked(r) == \A c \in DOMAIN S_in[r] : S_in[r][c] = NegInf

\* A degenerate row: its running sum is zero, or it has no score to weigh.
DegenerateRow(r) == l[r] = Zero \/ FullyMasked(r)

\* C11: when the row tile of a degenerate row (l[r] = 0: a fully masked row)
\* is finalized, onlinesoftmax gives the row a defined value, a row of zeros,
\* and no NaN comes out of the division by l[r].
C11_DegenerateRowDefined ==
    prog = "online" =>
        \A t \in DOMAIN fin :
            fin[t] >= 1 =>
                \A r \in TileRows(t) :
                    DegenerateRow(r) => \A c \in DOMAIN O[r] : O[r][c] = Zero

\* What the code does with a fully masked row: its running max stays -inf,
\* the exponent -inf - (-inf) is NaN, so its running sum is NaN (never 0) and
\* the row of O is NaN before and after the division.
MaskedRowIsNaN ==
    prog = "online" =>
        \A t \in DOMAIN cnt :
            cnt[t] >= 1 =>
                \A r \in TileRows(t) :
                    /\ l[r] # Zero
                    /\ FullyMasked(r) =>
                         /\ IsNaN(l[r])
                         /\ \A c \in 0..(cnt[t] * Bc - 1) : IsNaN(O[r][c])

\* The call was given a tile size or a matrix dimension that is not positive.
NonPositiveConfig == BrArg <= 0 \/ BcArg <= 0 \/ NoEntries(S_in)

\* C12: a call of onlinesoftmax with a tile size or a matrix dimension that is
\* not positive fails in its first step, before any block update is applied,
\* and never returns an output.
C12_NonPositiveIsFatal ==
    (prog = "online" /\ NonPositiveConfig) =>
        /\ pc \in {"start", "error"}
        /\ \A t \in DOMAIN cnt : cnt[t] = 0 /\ fin[t] = 0
        /\ \A r \in DOMAIN O : \A c \in DOMAIN O[r] : O[r][c] = Zero

\* A call with a negative tile height on a matrix of two or more rows, and a
\* call with a tile width of zero, have failed.
C12_Witness ==
    /\ prog = "online"
    /\ pc = "error"
    /\ Rows(S_in) >= 2
    /\ \/ BrArg < 0 /\ BcArg > 0
       \/ BrArg > 0 /\ BcArg = 0

\* C13: the score matrix is read-only: no step of onlinesoftmax or of
\* simplesoftmax changes an entry of the caller's S_in, so after the call
\* returns S_in is what it was before the call.
C13_InputReadOnly == [][S_in' = S_in]_vars

\* A call of onlinesoftmax returned after more than one block update per row
\* tile, with an output that differs from the scores.
C13_Witness ==
    /\ prog = "online"
    /\ pc = "done"
    /\ Tc >= 2
    /\ O # S_in
    /\ \A t \in DOMAIN cnt : cnt[t] = Tc

\* A call of simplesoftmax returned.
SimpleReturned == prog = "simple" /\ pc = "done" /\ Rows(S_in) >= 2

\* The three comparisons of check_data_onlinesoftmaxOp.py, each on the files
\* it reads: whether it can be made, and whether it passes.
PassM ==
    /\ Loads(env.files.m0_golden, Shape3Size(env.argv))
    /\ Loads(env.files.param0, Shape3Size(env.argv))
    /\ AbsBelow(env.files.param0.data, env.files.m0_golden.data, <<1, 10000>>)
PassL ==
    /\ Loads(env.files.l0_golden, Shape3Size(env.argv))
    /\ Loads(env.files.param1, Shape3Size(env.argv))
    /\ RelBelow(env.files.param1.data, env.files.l0_golden.data, <<1, 100>>)
PassS ==
    /\ Loads(env.files.s1_golden, Shape4Size(env.argv))
    /\ Loads(env.files.param3, Shape4Size(env.argv))
    /\ RelBelow(env.files.param3.data, env.files.s1_golden.data, <<1, 10000>>)

\* C14: check_data_onlinesoftmaxOp.py prints "Test OK!" and exits with status
\* 0 exactly when the running max is within 1e-4 (absolute), the running sum
\* within 1e-2 (relative) and the probabilities within 1e-4 (relative) of
\* their golden files; in every other case it reports a failure and exits
\* with status 1.
C14_CheckerVerdict ==
    (prog = "check_data_onlinesoftmaxOp" /\ pc = "exited") =>
        IF Len(env.argv) = 4 /\ PassM /\ PassL /\ PassS
        THEN loc.exit = 0 /\ loc.said = "Test OK!"
        ELSE loc.exit = 1 /\ loc.said \in {"Test Failed", "Traceback"}

\* The first comparison failed, the two later ones passed with a difference
\* that is not zero, and the script has ended.
C14_Witness ==
    /\ prog = "check_data_onlinesoftmaxOp"
    /\ pc = "exited"
    /\ loc.ncmp = 3
    /\ Len(env.argv) = 4
    /\ ~PassM /\ PassL /\ PassS
    /\ env.files.param1.data # env.files.l0_golden.data
    /\ env.files.param3.data # env.files.s1_golden.data

\* All three comparisons passed with differences that are not zero.
CheckerAccepts ==
    /\ prog = "check_data_onlinesoftmaxOp"
    /\ pc = "exited"
    /\ loc.exit = 0
    /\ env.files.param0.data # env.files.m0_golden.data
    /\ env.files.param1.data # env.files.l0_golden.data
    /\ env.files.param3.data # env.files.s1_golden.data

\* The output file param1.bin was compared with golden.bin and its relative
\* error is below 1e-2.
ComparedAndClose ==
    /\ loc.ncmp = 1
    /\ Loads(env.files.golden, ShapeSize(prog, env.argv))
    /\ Loads(env.files.param1, ShapeSize(prog, env.argv))
    /\ RelBelow(env.files.param1.data, env.files.golden.data, <<1, 100>>)

\* C15: the softmax and move-data check scripts exit with status 0 only if
\* the output file was compared with golden.bin and its relative error is
\* below 1e-2; in every other case they exit with status 1.
C15_SuccessOnlyIfCompared ==
    (prog \in Scripts3 /\ pc = "exited") =>
        /\ loc.exit \in {0, 1}
        /\ loc.exit = 0 => ComparedAndClose

\* What the code does: it also exits with status 0 when there is no output
\* file at all, provided golden.bin can be read.
SuccessWithoutOutput ==
    (prog \in Scripts3 /\ pc = "exited") =>
        /\ loc.exit \in {0, 1}
        /\ loc.exit = 0 => (ComparedAndClose \/ (loc.ncmp = 0 /\ ~env.files.param1.there))
        /\ (loc.ncmp = 0 /\ ~env.files.param1.there /\ loc.said # "Traceback")
               => loc.exit = 0

\* C16: ctest-junit-parse removes only log files <test>-output.log of tests
\* whose status in the category's JUnit file is "run", and only of categories
\* it was given; the log of a failed, skipped or disabled test is never removed.
C16_OnlyPassedLogsRemoved ==
    prog = "ctest-junit-parse" =>
        /\ loc.logs \subseteq env.logs
        /\ \A f \in env.logs \ loc.logs :
             /\ env.remove = "dir"
             /\ \E k \in DOMAIN env.categories : env.categories[k] = f[1]
             /\ env.xmls[f[1]].there
             /\ env.xmls[f[1]].cases[f[2]] = "run"
        /\ \A f \in env.logs :
             env.xmls[f[1]].cases[f[2]] \in {"fail", "notrun", "disabled"} => f \in loc.logs

\* The script has ended; it removed the log of a passed test of one category
\* and kept the log of the failed test of that name in the other category,
\* and the log of a failed test of its own category.
C16_Witness ==
    /\ prog = "ctest-junit-parse"
    /\ pc = "exited"
    /\ Len(env.categories) = 2
    /\ <<"unit", "a">> \in env.logs \ loc.logs
    /\ env.xmls["smoke"].cases["a"] = "fail"
    /\ <<"smoke", "a">> \in loc.logs
    /\ env.xmls["unit"].cases["b"] = "fail"
    /\ <<"unit", "b">> \in loc.logs

\* C17: in onlinesoftmax, after the update for column tile j of a row tile
\* and before its division, every entry of the blocks 0..j of its rows of O
\* is exp(S[r][c] - m[r]) for the current running max m[r], and every entry
\* of the later blocks is still zero.
C17_StoredBlocks ==
    prog = "online" =>
        \A t \in DOMAIN cnt :
            (cnt[t] >= 1 /\ fin[t] = 0) =>
                \A r \in TileRows(t) : \A c \in DOMAIN O[r] :
                    O[r][c] = IF c < cnt[t] * Bc
                              THEN FExp(FSub(S_in[r][c], m[r]))
                              ELSE Zero

\* Two of three or more column tiles are stored, the first of them was
\* rescaled, and the last block is still zero.
C17_Witness ==
    /\ prog = "online"
    /\ pc = "loop"
    /\ Tc >= 3
    /\ Br >= 2
    /\ cnt[0] = 2
    /\ fin[0] = 0
    /\ FLess(FMaxOver(S_in[1], 0, Bc - 1), m[1])
    /\ O[1][Tc * Bc - 1] = Zero

\* The state gen_golden_data gives a row tile before its first block.
GoldenStart(N, M) ==
    [m |-> [r \in 0..N - 1 |-> Int2F(Lowest16)], l |-> ZeroVector(N), O |-> ZeroMatrix(N, M)]

\* The correction factor exp(m_old - m_new) as each program computes it.
CorrectionFactor(mold, mnew) ==
    IF prog = "golden" THEN FExp16(FSub(mold, mnew)) ELSE FExp(FSub(mold, mnew))

\* What C18 asks of the step that applies the first block of row tile t.
FirstBlockStep ==
    IsUpdateStep =>
        \A t \in DOMAIN cnt :
            (cnt[t] = 0 /\ cnt'[t] = 1) =>
                LET N == Rows(S_in)
                    inf == UpdateBlock(InitialState(N), S_in, t, 0, Br, Tc, Bc)
                    low == GoldenBlock(GoldenStart(N, Cols(S_in)), S_in, t, 0, Br, Bc)
                IN  \A r \in TileRows(t) :
                        /\ m[r] = (IF prog = "golden" THEN Int2F(Lowest16) ELSE NegInf)
                        /\ CorrectionFactor(m[r], m'[r]) = Zero
                        /\ m'[r] = FMaxOver(S_in[r], 0, Bc - 1)
                        /\ l'[r] = ExpSum(r, Bc, m'[r])
                        /\ inf.m[r] = low.m[r] /\ m'[r] = inf.m[r]
                        /\ inf.l[r] = low.l[r] /\ l'[r] = inf.l[r]

\* C18: on the first column tile of a row tile the correction factor is
\* exactly 0, the running max becomes the row maxima of the first block and
\* the running sum the row sums of its P; the initial value -inf of
\* onlinesoftmax and the initial value -65504 of gen_golden_data give the
\* same running max and running sum.
C18_FirstBlock == [][FirstBlockStep]_vars

\* gen_golden_data has applied the first block of its second row tile.
C18_Witness ==
    /\ prog = "golden"
    /\ pc = "loop"
    /\ Tr >= 2
    /\ Tc >= 2
    /\ Br >= 2
    /\ i = 1
    /\ cnt[1] = 1
    /\ l[Br] # l[Br + 1]

\* C19: with finite scores the running sum of every row of a row tile is at
\* least 1 after each of its block updates, so the division of onlinesoftmax
\* never divides by zero.
C19_SumAtLeastOne ==
    prog = "online" =>
        \A t \in DOMAIN cnt :
            cnt[t] >= 1 =>
                \A r \in TileRows(t) : IsFinite(l[r]) /\ FLeq(One, l[r])

\* A row tile is about to be divided whose first row has a running sum
\* between 1 and 2, its maximum having been replaced on the way.
C19_Witness ==
    /\ prog = "online"
    /\ pc = "loop"
    /\ Tc >= 2
    /\ cnt[0] = Tc
    /\ fin[0] = 0
    /\ FLess(One, l[0])
    /\ FLess(l[0], Int2F(2))
    /\ FLess(FMaxOver(S_in[0], 0, Bc - 1), m[0])

\* The running max of row r of gen_golden_data after the first n columns.
PrefixMax(r, n) == FMax(Int2F(Lowest16), FMaxOver(S_in[r], 0, n - 1))

\* C20: in gen_golden_data the block written for column tile i1 of a row tile
\* is exp(S0 - m) with m the running max after column tiles 0..i1; it is not
\* rescaled when the running max rises later, while l0, once the row tile is
\* complete, is the sum relative to the final max.
C20_GoldenBlocksNotRescaled ==
    prog = "golden" =>
        \A t \in DOMAIN cnt :
            \A r \in TileRows(t) :
                /\ \A c \in DOMAIN O[r] :
                     O[r][c] = IF c < cnt[t] * Bc
                               THEN FExp(FSub(S_in[r][c], PrefixMax(r, ((c \div Bc) + 1) * Bc)))
                               ELSE Zero
                /\ cnt[t] = Tc => l[r] = ExpSum(r, Cols(S_in), TrueMax(r))

\* The golden data is written, and the first block of a row is not relative
\* to the row's final max while its last block is.
C20_Witness ==
    /\ prog = "golden"
    /\ pc = "done"
    /\ Tc >= 2
    /\ O[0][0] # FExp(FSub(S_in[0][0], m[0]))
    /\ O[0][Tc * Bc - 1] = FExp(FSub(S_in[0][Tc * Bc - 1], m[0]))

\* The sum of the 'failures' counts of the files of the first k requested
\* categories; a file that is missing has no count and adds nothing.
RECURSIVE FailuresUpTo(_)
FailuresUpTo(k) ==
    IF k = 0 THEN 0
    ELSE FailuresUpTo(k - 1) + env.xmls[env.categories[k]].failures

FailuresSum == FailuresUpTo(Len(env.categories))

\* The JUnit file of every requested category is there.
AllXmlsThere == \A k \in DOMAIN env.categories : env.xmls[env.categories[k]].there

\* The log files of the passed tests of the requested categories.
PassedLogs ==
    {f \in Categories \X TestNames :
        /\ \E k \in DOMAIN env.categories : env.categories[k] = f[1]
        /\ env.xmls[f[1]].cases[f[2]] = "run"}

\* What C21 says of the directory and of the logs: a path that is no
\* directory gives status 1 and no file is removed; with a directory, the
\* logs of the passed tests are gone at the end, whether they existed or not.
DirectoryAndLogs ==
    /\ env.remove = "nodir" => (loc.exit = 1 /\ loc.logs = env.logs)
    /\ env.remove = "none" => loc.logs = env.logs
    /\ (env.remove = "dir" /\ AllXmlsThere) => loc.logs = env.logs \ PassedLogs

\* C21 as stated: ctest-junit-parse exits with status 0 if and only if the
\* sum of the 'failures' counts over the requested categories is 0 and the
\* directory of --remove-successful-logs-from, if given, exists; otherwise
\* it exits with status 1.
C21_ExitStatusAsStated ==
    (prog = "ctest-junit-parse" /\ pc = "exited") =>
        /\ loc.exit \in {0, 1}
        /\ loc.exit = 0 <=> (FailuresSum = 0 /\ env.remove # "nodir")
        /\ DirectoryAndLogs

\* C21 as amended: the status is 0 if and only if, in addition, the JUnit
\* file of every requested category could be read.
C21_ExitStatus ==
    (prog = "ctest-junit-parse" /\ pc = "exited") =>
        /\ loc.exit \in {0, 1}
        /\ loc.exit = 0 <=> (AllXmlsThere /\ FailuresSum = 0 /\ env.remove # "nodir")
        /\ DirectoryAndLogs

\* The script ended with status 0 after removing a log of one category,
\* while the log of a passed test of the other category did not exist.
C21_Witness ==
    /\ prog = "ctest-junit-parse"
    /\ pc = "exited"
    /\ loc.exit = 0
    /\ env.remove = "dir"
    /\ env.categories = <<"unit", "smoke">>
    /\ <<"unit", "a">> \in env.logs \ loc.logs
    /\ env.xmls["smoke"].cases["b"] = "run"
    /\ <<"smoke", "b">> \notin env.logs

\* The script ended with status 1 because of a failed test, after removing
\* the log of a passed one.
FailuresGiveOne ==
    /\ prog = "ctest-junit-parse"
    /\ pc = "exited"
    /\ loc.exit = 1
    /\ env.remove = "dir"
    /\ FailuresSum = 2
    /\ loc.logs # env.logs

====
